---- MODULE Spec2Model ----
(***************************************************************************)
(* Model of the territory-map boundary pipeline:                           *)
(*   scripts/simplify_boundaries.py  (distance_point_line, rdp,            *)
(*                                    simplify_boundaries)                 *)
(*   scripts/extract_boundaries.py   (extract_boundaries,                  *)
(*                                    save_extracted_data, __main__)       *)
(*                                                                         *)
(* Four specifications share the module:                                   *)
(*   SpecRdp      - the pure polyline simplifier applied to every point    *)
(*                  list over a small integer grid;                        *)
(*   SpecRdpCalls - the recursive calls rdp makes on each of those lists;  *)
(*   SpecExtract  - the classification of the contours of every source     *)
(*                  image, followed by simplification passes;              *)
(*   Spec         - the file-level pipeline: extraction runs,              *)
(*                  simplification passes, the live dataset file and its   *)
(*                  backups.                                               *)
(***************************************************************************)
EXTENDS Integers, Sequences, FiniteSets, TLC

VARIABLES
    \* ---- SpecRdp: one polygon under repeated simplification
    points,      \* the point list handed to the first pass
    epsilon,     \* the tolerance of the passes
    region,      \* the region record the passes update (polygon, vertices)
    passes,      \* number of passes applied so far
    \* ---- Spec: the dataset file, its backups and the running script
    live,        \* content of data/extracted_regions.json
    backups,     \* content of <file>.<timestamp>.bak, per timestamp
    clock,       \* wall clock, in seconds (the resolution of the timestamp)
    pc,          \* position of the running script, "idle" between runs
    pending,     \* the in-memory data the running script is about to dump
    runs,        \* number of script runs started
    runKind,     \* history: which script ran last ("none", "extract", "simplify")
    failure,     \* history: the failure the last run met ("none" if it met none)
    exitStatus,  \* history: completion status of the last finished run
    passStart,   \* history: live content when the last simplification pass began
    wrote,       \* history: the last run opened the live file for writing
    \* ---- SpecRdpCalls: the recursion of one evaluation of rdp
    calls,       \* the recursive calls made, each with its nesting depth
    \* ---- SpecExtract: one source image and the dataset made from it
    image,       \* the contours cv2.findContours finds in the source image
    extracted,   \* history: the output of extract_boundaries for the image
    dataset      \* the dataset, as the simplification passes have left it

rdpVars == <<points, epsilon, region, passes>>

fileVars == <<live, backups, clock, pc, pending, runs, runKind, failure,
              exitStatus, passStart, wrote>>

callVars == <<calls>>

extractVars == <<image, extracted, dataset>>

vars == <<points, epsilon, region, passes, live, backups, clock, pc, pending,
          runs, runKind, failure, exitStatus, passStart, wrote, calls, image,
          extracted, dataset>>

(***************************************************************************)
(* Bounds of the model.                                                    *)
(***************************************************************************)
MaxX == 2          \* x coordinates are 0..MaxX
MaxY == 1          \* y coordinates are 0..MaxY
MaxLen == 4        \* longest point list handed to rdp
MaxEps == 1        \* tolerances are 0..MaxEps
MaxPasses == 2     \* passes applied to one polygon in SpecRdp
MaxContours == 2   \* contours found in one source image
MaxRuns == 3       \* script runs in one behaviour of Spec
MaxClock == 1      \* the clock runs over 0..MaxClock
ImageWidth == 100  \* width of the source image
ImageHeight == 100 \* height of the source image

Points == (0..MaxX) \X (0..MaxY)
Epsilons == 0..MaxEps
PointLists == UNION {[1..n -> Points] : n \in 0..MaxLen}

Abs(v) == IF v < 0 THEN -v ELSE v

\* A faulty distance_point_line: the x and y differences of the numerator
\* are exchanged.
distance_point_line_swapped(point, start, end) ==
    IF start = end
    THEN [nsq |-> (point[1] - start[1]) * (point[1] - start[1])
                  + (point[2] - start[2]) * (point[2] - start[2]),
          den |-> 1]
    ELSE LET n == Abs((end[1] - start[1]) * point[1]
                      - (end[2] - start[2]) * point[2]
                      + end[1] * start[2] - end[2] * start[1])
         IN  [nsq |-> n * n,
              den |-> (end[2] - start[2]) * (end[2] - start[2])
                      + (end[1] - start[1]) * (end[1] - start[1])]

(***************************************************************************)
(* distance_point_line returns a float n / sqrt(d2).  The model keeps the  *)
(* exact value of its square as the fraction nsq / den (den > 0); the two  *)
(* comparisons rdp makes with it (d > dmax, dmax > epsilon) are decided on *)
(* the squares, which agrees with the float comparison for the integer     *)
(* coordinates of the dataset (all operands non-negative).                 *)
(* A point is <<x, y>>: Python's point[0], point[1] are p[1], p[2] here.   *)
(***************************************************************************)
distance_point_line(point, start, end) ==
    IF start = end
    THEN [nsq |-> (point[1] - start[1]) * (point[1] - start[1])
                  + (point[2] - start[2]) * (point[2] - start[2]),
          den |-> 1]
    ELSE LET n == Abs((end[2] - start[2]) * point[1]
                      - (end[1] - start[1]) * point[2]
                      + end[1] * start[2] - end[2] * start[1])
         IN  [nsq |-> n * n,
              den |-> (end[2] - start[2]) * (end[2] - start[2])
                      + (end[1] - start[1]) * (end[1] - start[1])]

\* d1 > d2 on two distances
DistGreater(d1, d2) == d1.nsq * d2.den > d2.nsq * d1.den

\* A faulty comparison: d >= e, which lets a run with dmax = epsilon = 0 split
DistAtLeast(d, e) == d.nsq >= e * e * d.den

\* d > e for a distance d and a number e >= 0
DistExceeds(d, e) == d.nsq > e * e * d.den

ZeroDist == [nsq |-> 0, den |-> 1]

\* A faulty scan: range(1, end - 1), which never looks at the last interior
\* point.
RECURSIVE FarthestScanShort(_, _, _, _)
FarthestScanShort(pts, i, index, dmax) ==
    IF i >= Len(pts) - 1
    THEN [index |-> index, dmax |-> dmax]
    ELSE LET d == distance_point_line(pts[i], pts[1], pts[Len(pts)])
         IN  IF DistGreater(d, dmax)
             THEN FarthestScanShort(pts, i + 1, i, d)
             ELSE FarthestScanShort(pts, i + 1, index, dmax)

(***************************************************************************)
(* The scan of rdp (lines 21-29): the first interior index of greatest     *)
(* distance from the line through the first and the last point.  Indices   *)
(* are 1-based: Python's index 0 is 1 here, range(1, end) is 2..Len-1.     *)
(***************************************************************************)
RECURSIVE FarthestScan(_, _, _, _)
FarthestScan(pts, i, index, dmax) ==
    IF i >= Len(pts)
    THEN [index |-> index, dmax |-> dmax]
    ELSE LET d == distance_point_line(pts[i], pts[1], pts[Len(pts)])
         IN  IF DistGreater(d, dmax)
             THEN FarthestScan(pts, i + 1, i, d)
             ELSE FarthestScan(pts, i + 1, index, dmax)

\* A faulty rdp: the shared vertex of the two halves is not removed.
RECURSIVE rdpKeepShared(_, _)
rdpKeepShared(pts, eps) ==
    IF Len(pts) < 3
    THEN pts
    ELSE LET far == FarthestScan(pts, 2, 1, ZeroDist)
         IN  IF DistExceeds(far.dmax, eps)
             THEN rdpKeepShared(SubSeq(pts, 1, far.index), eps)
                  \o rdpKeepShared(SubSeq(pts, far.index, Len(pts)), eps)
             ELSE <<pts[1], pts[Len(pts)]>>

\* A faulty rdp: a run of points within tolerance is returned as it is
\* instead of being collapsed to its end points.
RECURSIVE rdpNoCollapse(_, _)
rdpNoCollapse(pts, eps) ==
    IF Len(pts) < 3
    THEN pts
    ELSE LET far == FarthestScan(pts, 2, 1, ZeroDist)
         IN  IF DistExceeds(far.dmax, eps)
             THEN LET rec_results1 == rdpNoCollapse(SubSeq(pts, 1, far.index), eps)
                      rec_results2 == rdpNoCollapse(SubSeq(pts, far.index, Len(pts)), eps)
                  IN  SubSeq(rec_results1, 1, Len(rec_results1) - 1) \o rec_results2
             ELSE pts

RECURSIVE rdp(_, _)
rdp(pts, eps) ==
    IF Len(pts) < 3
    THEN pts
    ELSE LET far == FarthestScan(pts, 2, 1, ZeroDist)
         IN  IF DistExceeds(far.dmax, eps)
             THEN LET rec_results1 == rdp(SubSeq(pts, 1, far.index), eps)
                      rec_results2 == rdp(SubSeq(pts, far.index, Len(pts)), eps)
                  IN  SubSeq(rec_results1, 1, Len(rec_results1) - 1) \o rec_results2
             ELSE <<pts[1], pts[Len(pts)]>>

(***************************************************************************)
(* The recursive calls one evaluation of rdp makes (lines 33-34), as the   *)
(* set of records [caller, callee, depth]: the length of the calling       *)
(* list, the length of the list passed, and the nesting depth of the call  *)
(* made (the outermost call has depth 1).  The tree of calls is followed   *)
(* down to depth limit + 1.                                                *)
(***************************************************************************)
RECURSIVE rdpCalls(_, _, _, _)
rdpCalls(pts, eps, depth, limit) ==
    IF Len(pts) < 3
    THEN {}
    ELSE LET far == FarthestScan(pts, 2, 1, ZeroDist)
         IN  IF DistExceeds(far.dmax, eps)
             THEN LET first  == SubSeq(pts, 1, far.index)
                      second == SubSeq(pts, far.index, Len(pts))
                      made   == {[caller |-> Len(pts), callee |-> Len(sub),
                                  depth |-> depth + 1] : sub \in {first, second}}
                  IN  IF depth < limit
                      THEN made \cup rdpCalls(first, eps, depth + 1, limit)
                                \cup rdpCalls(second, eps, depth + 1, limit)
                      ELSE made
             ELSE {}

(***************************************************************************)
(* The body of the region loop of simplify_boundaries (lines 69-86): a     *)
(* region with an empty polygon is skipped, any other gets its polygon     *)
(* replaced by rdp's result and its vertices field set to the new length.  *)
(***************************************************************************)
SimplifyRegion(r, eps) ==
    IF r.polygon = <<>>
    THEN r
    ELSE LET simplified == rdp(r.polygon, eps)
         IN  [r EXCEPT !.polygon = simplified, !.vertices = Len(simplified)]

(***************************************************************************)
(* Contours, as cv2.findContours / contourArea / arcLength / approxPolyDP  *)
(* hand them to extract_boundaries: the area, the perimeter and the        *)
(* polygon approxPolyDP returns for the contour (the same for both calls,  *)
(* lines 100 and 155, which pass the same contour and epsilon).  Distinct  *)
(* contours trace distinct borders, so their polygons differ.  The         *)
(* centroid and the image metadata play no part in the properties checked  *)
(* and are left out of the records.                                        *)
(***************************************************************************)
Tri == <<<<0, 0>>, <<2, 0>>, <<1, 1>>>>
Quad == <<<<0, 0>>, <<2, 0>>, <<2, 1>>, <<0, 1>>>>
Pent == <<<<0, 0>>, <<1, 0>>, <<2, 0>>, <<2, 1>>, <<0, 1>>>>
Polys == {Tri, Quad, Pent}
AreaChoices == {4, 5, 1500, 1600, 3500, 4000}
PerimeterChoices == {40, 60}

Contours == [area : AreaChoices, perimeter : PerimeterChoices, polygon : Polys]

ContourLists ==
    {cs \in UNION {[1..n -> Contours] : n \in 0..MaxContours} :
        \A i, j \in DOMAIN cs : i # j => cs[i].polygon # cs[j].polygon}

None == <<>>       \* Python's None for congregation_boundary

\* lines 79-81, and the thresholds of lines 121 and 152, compared exactly
total_area == ImageWidth * ImageHeight
BelowMinArea(area) == area * 10000 < total_area * 5          \* area < min_area
\* A faulty ceiling: 1.5 instead of 0.15
WithinMaxAreaTenfold(area) == area * 10 <= ImageWidth * ImageHeight * 15

WithinMaxArea(area) == area * 100 <= total_area * 15         \* area <= max_area
Above30Percent(area) == area * 10 > total_area * 3
\* A faulty fallback threshold: the Region ceiling (15%) instead of 10%
Above10PercentAsCeiling(area) == area * 100 > ImageWidth * ImageHeight * 15

Above10Percent(area) == area * 10 > total_area

(***************************************************************************)
(* The contour loop of extract_boundaries (lines 87-132).  acc holds the   *)
(* loop's three accumulators.                                              *)
(***************************************************************************)
RECURSIVE ContourLoop(_, _, _)
ContourLoop(contours, i, acc) ==
    IF i > Len(contours)
    THEN acc
    ELSE LET c == contours[i]
         IN  IF BelowMinArea(c.area) \/ Len(c.polygon) < 4
             THEN ContourLoop(contours, i + 1, acc)
             ELSE LET tracked ==
                          IF c.area > acc.max_contour_area
                          THEN [acc EXCEPT
                                  !.max_contour_area = c.area,
                                  !.congregation_boundary =
                                      IF Above30Percent(c.area)
                                      THEN c.polygon
                                      ELSE @]
                          ELSE acc
                      added ==
                          IF WithinMaxArea(c.area)
                          THEN [tracked EXCEPT
                                  !.regions = Append(@,
                                      [regionId |-> Len(@) + 1,
                                       polygon |-> c.polygon,
                                       area |-> c.area,
                                       vertices |-> Len(c.polygon)])]
                          ELSE tracked
                  IN  ContourLoop(contours, i + 1, added)

(***************************************************************************)
(* regions.sort(key=area, reverse=True) (line 137): a stable sort, so      *)
(* regions of equal area keep their order.  SortedInsert puts r after      *)
(* every region whose area is at least r's.                                *)
(***************************************************************************)
\* A faulty sort: r goes before the regions of its own area, which reverses
\* the order of regions of equal area.
SortedInsertBeforeTies(sorted, r) ==
    LET k == Cardinality({j \in DOMAIN sorted : sorted[j].area > r.area})
    IN  SubSeq(sorted, 1, k) \o <<r>> \o SubSeq(sorted, k + 1, Len(sorted))

SortedInsert(sorted, r) ==
    LET k == Cardinality({j \in DOMAIN sorted : sorted[j].area >= r.area})
    IN  SubSeq(sorted, 1, k) \o <<r>> \o SubSeq(sorted, k + 1, Len(sorted))

RECURSIVE SortByAreaDesc(_)
SortByAreaDesc(regions) ==
    IF regions = <<>>
    THEN <<>>
    ELSE SortedInsert(SortByAreaDesc(SubSeq(regions, 1, Len(regions) - 1)),
                      regions[Len(regions)])

\* lines 140-141
Renumber(regions) == [i \in DOMAIN regions |-> [regions[i] EXCEPT !.regionId = i]]

(***************************************************************************)
(* The fallback scan for the congregation boundary (lines 148-156).        *)
(***************************************************************************)
RECURSIVE FallbackLoop(_, _, _, _)
FallbackLoop(contours, i, max_perimeter, boundary) ==
    IF i > Len(contours)
    THEN boundary
    ELSE LET c == contours[i]
         IN  IF Above10Percent(c.area) /\ c.perimeter > max_perimeter
             THEN FallbackLoop(contours, i + 1, c.perimeter, c.polygon)
             ELSE FallbackLoop(contours, i + 1, max_perimeter, boundary)

\* extract_boundaries from line 79 on: the output dictionary
extract_boundaries(contours) ==
    LET scanned == ContourLoop(contours, 1,
                       [regions |-> <<>>,
                        congregation_boundary |-> None,
                        max_contour_area |-> 0])
        regions == Renumber(SortByAreaDesc(scanned.regions))
        boundary == IF scanned.congregation_boundary = None
                    THEN FallbackLoop(contours, 1, 0, None)
                    ELSE scanned.congregation_boundary
    IN  [hasRegions |-> TRUE, regions |-> regions, congregationBoundary |-> boundary]

(***************************************************************************)
(* File contents.  A file holds a complete JSON object ("object", with the *)
(* data it parses to), a JSON value that is no object ("notobject"), text  *)
(* that is no JSON ("garbage"), nothing ("empty", what open(path, 'w')     *)
(* leaves), or a proper prefix of the dump of some data ("partial", what   *)
(* an interrupted json.dump leaves); "absent" is the missing file.         *)
(* data.hasRegions tells whether the object has an extractedRegions key.   *)
(***************************************************************************)
NoData == [hasRegions |-> FALSE, regions |-> <<>>, congregationBoundary |-> None]
Absent == [kind |-> "absent", data |-> NoData]
Garbage == [kind |-> "garbage", data |-> NoData]
NotObject == [kind |-> "notobject", data |-> NoData]
Empty == [kind |-> "empty", data |-> NoData]
Partial(d) == [kind |-> "partial", data |-> d]
Object(d) == [kind |-> "object", data |-> d]

\* json.load raises on these
Unparseable(c) == c.kind \in {"garbage", "empty", "partial"}

IdleRdp ==
    /\ points = <<>>
    /\ epsilon = 0
    /\ region = [polygon |-> <<>>, vertices |-> 0]
    /\ passes = 0

IdleCalls == calls = {}

IdleExtract ==
    /\ image = <<>>
    /\ extracted = NoData
    /\ dataset = NoData

\* the state before any run: the dataset file is missing, or some file the
\* pipeline did not write lies at its path
Init ==
    /\ IdleRdp
    /\ IdleCalls
    /\ IdleExtract
    /\ live \in {Absent, Garbage, NotObject, Object(NoData)}
    /\ backups = [t \in 0..MaxClock |-> Absent]
    /\ clock = 0
    /\ pc = "idle"
    /\ pending = NoData
    /\ runs = 0
    /\ runKind = "none"
    /\ failure = "none"
    /\ exitStatus = 0
    /\ passStart = Absent
    /\ wrote = FALSE

\* a run that ends: the script returns (status 0) or dies of an uncaught
\* exception (status 1)
EndRun(why, status) ==
    /\ pc' = "idle"
    /\ pending' = NoData
    /\ failure' = why
    /\ exitStatus' = status

StartRun(kind) ==
    /\ pc = "idle"
    /\ runs < MaxRuns
    /\ runs' = runs + 1
    /\ runKind' = kind
    /\ wrote' = FALSE

(***************************************************************************)
(* simplify_boundaries, lines 43-86: the existence check, the backup, the  *)
(* load and the region loop.  Nothing in them touches the live file.       *)
(***************************************************************************)
SimplifyLoaded(data, eps) ==
    [data EXCEPT !.regions = [i \in DOMAIN @ |-> SimplifyRegion(@[i], eps)]]

\* A faulty pass: the backup is made only once the file has been loaded.
SimplifyBeginLoadFirst(eps) ==
    /\ StartRun("simplify")
    /\ passStart' = live
    /\ UNCHANGED <<rdpVars, callVars, extractVars, live, clock>>
    /\ IF live.kind = "absent"
       THEN /\ EndRun("missing", 0)
            /\ UNCHANGED backups
       ELSE IF Unparseable(live)
       THEN /\ EndRun("parse", 0)
            /\ UNCHANGED backups
       ELSE /\ backups' = [backups EXCEPT ![clock] = live]
            /\ IF live.kind = "notobject"
               THEN EndRun("structure", 1)
               ELSE /\ pc' = "simplify_open"
                    /\ pending' = SimplifyLoaded(live.data, eps)
                    /\ UNCHANGED <<failure, exitStatus>>

\* A faulty pass: no backup is made.
SimplifyBeginNoBackup(eps) ==
    /\ StartRun("simplify")
    /\ passStart' = live
    /\ UNCHANGED <<rdpVars, callVars, extractVars, live, clock, backups>>
    /\ IF live.kind = "absent"
       THEN EndRun("missing", 0)
       ELSE IF Unparseable(live)
       THEN EndRun("parse", 0)
       ELSE IF live.kind = "notobject"
       THEN EndRun("structure", 1)
       ELSE /\ pc' = "simplify_open"
            /\ pending' = SimplifyLoaded(live.data, eps)
            /\ UNCHANGED <<failure, exitStatus>>

SimplifyBegin(eps) ==
    /\ StartRun("simplify")
    /\ passStart' = live
    /\ UNCHANGED <<rdpVars, callVars, extractVars, live, clock>>
    /\ IF live.kind = "absent"
       THEN \* lines 45-47
            /\ EndRun("missing", 0)
            /\ UNCHANGED backups
       ELSE \* lines 50-52: copy2 replaces a backup of the same second
            /\ backups' = [backups EXCEPT ![clock] = live]
            /\ IF Unparseable(live)
               THEN EndRun("parse", 0)              \* lines 59-61
               ELSE IF live.kind = "notobject"
               THEN EndRun("structure", 1)          \* line 64 raises
               ELSE /\ pc' = "simplify_open"
                    /\ pending' = SimplifyLoaded(live.data, eps)
                    /\ UNCHANGED <<failure, exitStatus>>

\* line 90: open(file_path, 'w') truncates the file, or raises
SimplifyOpen ==
    /\ pc = "simplify_open"
    /\ UNCHANGED <<rdpVars, callVars, extractVars, backups, clock, runs, runKind, passStart>>
    /\ \/ /\ live' = Empty
          /\ wrote' = TRUE
          /\ pc' = "simplify_dump"
          /\ UNCHANGED <<pending, failure, exitStatus>>
       \/ /\ EndRun("save", 0)                      \* lines 93-95
          /\ UNCHANGED <<live, wrote>>

\* line 91: json.dump writes the data out, or raises part-way
SimplifyDump ==
    /\ pc = "simplify_dump"
    /\ UNCHANGED <<rdpVars, callVars, extractVars, backups, clock, runs, runKind, passStart, wrote>>
    /\ \/ /\ live' = Object(pending)
          /\ EndRun("none", 0)
       \/ /\ live' \in {Empty, Partial(pending)}
          /\ EndRun("save", 0)                      \* lines 93-95

(***************************************************************************)
(* extract_boundaries.py, __main__ (lines 236-253): extract_boundaries,    *)
(* then save_extracted_data when it returned data.  imageReadable is       *)
(* cv2.imread's success; findContours returns no hierarchy exactly when it *)
(* finds no contour.                                                       *)
(***************************************************************************)
ExtractBegin(imageReadable, contours) ==
    /\ StartRun("extract")
    /\ UNCHANGED <<rdpVars, callVars, extractVars, live, backups, clock, passStart>>
    /\ IF ~imageReadable
       THEN EndRun("image", 0)                      \* lines 36-38, 252-253
       ELSE IF contours = <<>>
       THEN EndRun("hierarchy", 0)                  \* lines 69-71, 252-253
       ELSE /\ pc' = "extract_open"
            /\ pending' = extract_boundaries(contours)
            /\ UNCHANGED <<failure, exitStatus>>

\* line 183: open(output_path, 'w'); nothing catches what it raises
ExtractOpen ==
    /\ pc = "extract_open"
    /\ UNCHANGED <<rdpVars, callVars, extractVars, backups, clock, runs, runKind, passStart>>
    /\ \/ /\ live' = Empty
          /\ wrote' = TRUE
          /\ pc' = "extract_dump"
          /\ UNCHANGED <<pending, failure, exitStatus>>
       \/ /\ EndRun("save", 1)
          /\ UNCHANGED <<live, wrote>>

\* line 184: json.dump; nothing catches what it raises
ExtractDump ==
    /\ pc = "extract_dump"
    /\ UNCHANGED <<rdpVars, callVars, extractVars, backups, clock, runs, runKind, passStart, wrote>>
    /\ \/ /\ live' = Object(pending)
          /\ EndRun("none", 0)
       \/ /\ live' \in {Empty, Partial(pending)}
          /\ EndRun("save", 1)

(***************************************************************************)
(* The source images a run may find.  ExtractBegin reads contours only     *)
(* through extract_boundaries (and the test for no contour at all), so one *)
(* contour list per distinct output stands for all lists with that output. *)
(***************************************************************************)
ExtractOutputs == {extract_boundaries(cs) : cs \in ContourLists \ {<<>>}}

SourceImages ==
    {<<>>} \cup {CHOOSE cs \in ContourLists \ {<<>>} : extract_boundaries(cs) = out :
                    out \in ExtractOutputs}

\* time passes between and during runs
Tick ==
    /\ clock < MaxClock
    /\ clock' = clock + 1
    /\ UNCHANGED <<rdpVars, callVars, extractVars, live, backups, pc, pending, runs, runKind, failure,
                   exitStatus, passStart, wrote>>

Next ==
    \/ \E eps \in Epsilons : SimplifyBegin(eps)
    \/ SimplifyOpen
    \/ SimplifyDump
    \/ \E readable \in BOOLEAN, cs \in SourceImages : ExtractBegin(readable, cs)
    \/ ExtractOpen
    \/ ExtractDump
    \/ Tick

Spec == Init /\ [][Next]_vars

IdleFiles ==
    /\ live = Absent
    /\ backups = [t \in 0..MaxClock |-> Absent]
    /\ clock = 0
    /\ pc = "idle"
    /\ pending = NoData
    /\ runs = 0
    /\ runKind = "none"
    /\ failure = "none"
    /\ exitStatus = 0
    /\ passStart = Absent
    /\ wrote = FALSE

(***************************************************************************)
(* SpecRdp: every point list up to MaxLen over the grid, every tolerance,  *)
(* simplified MaxPasses times with the same tolerance.                     *)
(***************************************************************************)
InitRdp ==
    /\ points \in PointLists
    /\ epsilon \in Epsilons
    /\ region = [polygon |-> points, vertices |-> Len(points)]
    /\ passes = 0
    /\ IdleFiles
    /\ IdleCalls
    /\ IdleExtract

SimplifyPass ==
    /\ passes < MaxPasses
    /\ region' = SimplifyRegion(region, epsilon)
    /\ passes' = passes + 1
    /\ UNCHANGED <<points, epsilon, fileVars, callVars, extractVars>>

NextRdp == SimplifyPass

SpecRdp == InitRdp /\ [][NextRdp]_vars

(***************************************************************************)
(* SpecExtract: every source image (contour list) is classified by         *)
(* extract_boundaries, and the dataset made from it is then simplified up  *)
(* to MaxPasses times, each pass with any tolerance.  An image without     *)
(* contours gives no dataset (lines 69-71).                                *)
(***************************************************************************)
InitExtract ==
    /\ image \in ContourLists
    /\ extracted = NoData
    /\ dataset = NoData
    /\ IdleRdp
    /\ IdleFiles
    /\ IdleCalls

ExtractImage ==
    /\ image # <<>>
    /\ ~extracted.hasRegions
    /\ extracted' = extract_boundaries(image)
    /\ dataset' = extract_boundaries(image)
    /\ UNCHANGED <<image, rdpVars, fileVars, callVars>>

SimplifyDataset(eps) ==
    /\ extracted.hasRegions
    /\ passes < MaxPasses
    /\ dataset' = SimplifyLoaded(dataset, eps)
    /\ passes' = passes + 1
    /\ UNCHANGED <<image, extracted, points, epsilon, region, fileVars, callVars>>

NextExtract ==
    \/ ExtractImage
    \/ \E eps \in Epsilons : SimplifyDataset(eps)

SpecExtract == InitExtract /\ [][NextExtract]_vars

(***************************************************************************)
(* Vocabulary of the claims about rdp.  A kept set of a list of n points   *)
(* is a set of indices that holds 1 and n; the vertices outside it are the *)
(* discarded ones.                                                         *)
(***************************************************************************)
KeptSets(n) == {S \in SUBSET (1..n) : 1 \in S /\ n \in S}

RetainedBefore(S, i) == CHOOSE j \in S : j < i /\ \A k \in S : k < i => k <= j
RetainedAfter(S, i) == CHOOSE j \in S : j > i /\ \A k \in S : k > i => k >= j

\* the sub-list of pts at the indices of S, in order
Restrict(pts, S) ==
    [k \in 1..Cardinality(S) |->
        pts[CHOOSE j \in S : Cardinality({m \in S : m <= j}) = k]]

\* The perpendicular distance of p from the line through a and b exceeds
\* eps (the distance from a itself when a = b), stated on the squares:
\* |cross(p - a, b - a)| / |b - a| > eps.
FartherThan(p, a, b, eps) ==
    IF a = b
    THEN (p[1] - a[1]) * (p[1] - a[1]) + (p[2] - a[2]) * (p[2] - a[2]) > eps * eps
    ELSE LET cross == (p[1] - a[1]) * (b[2] - a[2]) - (p[2] - a[2]) * (b[1] - a[1])
             len2 == (b[1] - a[1]) * (b[1] - a[1]) + (b[2] - a[2]) * (b[2] - a[2])
         IN  cross * cross > eps * eps * len2

\* every discarded vertex is within eps of the line through its nearest
\* retained predecessor and successor
WithinTolerance(pts, S, eps) ==
    \A i \in (1..Len(pts)) \ S :
        ~FartherThan(pts[i], pts[RetainedBefore(S, i)], pts[RetainedAfter(S, i)], eps)

\* C2: rdp is idempotent - once a pass has been applied, a further pass with
\* the same epsilon returns the polygon it is given, and the pass leaves the
\* region's polygon and vertices fields as they are.
C2_Idempotent ==
    passes >= 1 =>
        /\ rdp(region.polygon, epsilon) = region.polygon
        /\ SimplifyRegion(region, epsilon) = region

C2_Witness ==
    /\ passes = 2
    /\ Len(points) = 4
    /\ Len(region.polygon) = 3

\* C3: every vertex rdp discards lies within epsilon of the line through its
\* nearest retained predecessor and successor (point distance when the two
\* coincide).
C3_DiscardedWithinEpsilon ==
    (passes = 1 /\ Len(points) >= 2) =>
        \E S \in KeptSets(Len(points)) :
            /\ Restrict(points, S) = region.polygon
            /\ WithinTolerance(points, S, epsilon)

C3_Witness ==
    /\ passes = 1
    /\ epsilon = 1
    /\ Len(points) = 4
    /\ Len(region.polygon) = 3
    /\ points[1] = points[4]

\* C4 as claimed: no subsequence that keeps the end points and keeps every
\* discarded vertex within epsilon has fewer points than rdp's result.
C4_MinimalCardinality ==
    (passes = 1 /\ Len(points) >= 2) =>
        \A S \in KeptSets(Len(points)) :
            WithinTolerance(points, S, epsilon)
                => Cardinality(S) >= Len(region.polygon)

\* C4 as amended: rdp's result keeps every discarded vertex within epsilon,
\* and it has the fewest points possible whenever it has at most 3 points.
C4_MinimalUpToThree ==
    (passes = 1 /\ Len(points) >= 2) =>
        /\ \E S \in KeptSets(Len(points)) :
               /\ Restrict(points, S) = region.polygon
               /\ WithinTolerance(points, S, epsilon)
        /\ Len(region.polygon) <= 3 =>
               \A S \in KeptSets(Len(points)) :
                   WithinTolerance(points, S, epsilon)
                       => Cardinality(S) >= Len(region.polygon)

C4_Witness ==
    /\ passes = 1
    /\ Len(points) = 4
    /\ Len(region.polygon) = 3
    /\ \E S \in KeptSets(4) :
           /\ Cardinality(S) = 3
           /\ WithinTolerance(points, S, epsilon)
           /\ Restrict(points, S) # region.polygon

\* C5: rdp's result is an order-preserving subsequence of its input with the
\* same first and last element, so it is no longer than the input; a list of
\* fewer than 3 points is returned unchanged.
C5_Subsequence ==
    passes = 1 =>
        /\ \E S \in SUBSET (1..Len(points)) :
               /\ Len(points) >= 1 => (1 \in S /\ Len(points) \in S)
               /\ Restrict(points, S) = region.polygon
        /\ Len(region.polygon) <= Len(points)
        /\ Len(points) >= 1 =>
               /\ region.polygon[1] = points[1]
               /\ region.polygon[Len(region.polygon)] = points[Len(points)]
        /\ Len(points) < 3 => region.polygon = points

C5_Witness ==
    /\ passes = 1
    /\ Len(points) = 4
    /\ Len(region.polygon) = 2
    /\ epsilon = 0

C5_WitnessShort ==
    /\ passes = 1
    /\ Len(points) = 2
    /\ region.polygon = points

(***************************************************************************)
(* Claims about the dataset file (checked under Spec).                     *)
(***************************************************************************)
Regions(c) == {c.data.regions[i] : i \in DOMAIN c.data.regions}

\* C1: every Region of the persisted dataset, after an extraction and any
\* number of simplification passes, has vertices >= 4 and a polygon of at
\* least 4 points.
C1_AtLeastFourVertices ==
    live.kind = "object" =>
        \A r \in Regions(live) : r.vertices >= 4 /\ Len(r.polygon) >= 4

\* the file cannot be loaded as a dataset: no JSON, or no JSON object
CannotLoad(c) == Unparseable(c) \/ c.kind = "notobject"

\* malformed as the claim has it: cannot be parsed, or lacks the dataset
\* structure (here: no JSON object, or an object without extractedRegions)
Malformed(c) == CannotLoad(c) \/ (c.kind = "object" /\ ~c.data.hasRegions)

BackedUp(c) == \E t \in DOMAIN backups : backups[t] = c

\* C6 as claimed: a simplification pass over a malformed dataset file never
\* writes to the live file, leaves its content as it was, and keeps the
\* backup it made.
C6_MalformedLeftAlone ==
    (runKind = "simplify" /\ Malformed(passStart)) =>
        /\ ~wrote
        /\ live = passStart
        /\ BackedUp(passStart)

\* C6 as amended: a simplification pass over a file that is no JSON, or
\* whose JSON value is no object, never writes to the live file, leaves its
\* content as it was, and keeps the backup it made.
C6_UnloadableLeftAlone ==
    (runKind = "simplify" /\ CannotLoad(passStart)) =>
        /\ ~wrote
        /\ live = passStart
        /\ BackedUp(passStart)

C6_Witness ==
    /\ runKind = "simplify"
    /\ pc = "idle"
    /\ passStart.kind = "partial"
    /\ live = passStart
    /\ failure = "parse"

\* C7: the live dataset file always holds a complete content, the previous
\* or the new one, never an empty or partially written dataset.
C7_AtomicSave == live.kind \notin {"empty", "partial"}

\* C8: a run that met a failure ends with a non-zero completion status (so
\* a run that ends with status zero met none).
C8_FailureIsNonZero ==
    (pc = "idle" /\ runKind # "none" /\ failure # "none") => exitStatus # 0

\* a step that starts a write to the live file
StartsWrite == pc \in {"simplify_open", "extract_open"} /\ live' # live

\* C9 as claimed, for a dataset the pipeline created: every write over it is
\* preceded by a backup that holds its content.
C9_BackupBeforeMutation ==
    [][(StartsWrite /\ live.kind = "object" /\ live.data.hasRegions)
           => BackedUp(live)]_vars

\* C9 as amended: every write a simplification pass makes to the dataset
\* file is preceded by a backup that holds the content the file had
\* immediately before the write.
C9_BackupBeforeSimplifyWrite ==
    [][(pc = "simplify_open" /\ live' # live) => BackedUp(live)]_vars

C9_Witness ==
    /\ pc = "simplify_dump"
    /\ wrote
    /\ passStart.kind = "object"
    /\ passStart.data.regions # <<>>
    /\ BackedUp(passStart)
    /\ live = Empty

\* C10: in a dataset produced by extraction the polygon chosen as
\* congregationBoundary is not the polygon of any Region.
C10_BoundaryIsNoRegion ==
    (runKind = "extract" /\ pc = "idle" /\ failure = "none") =>
        \A r \in Regions(live) : r.polygon # live.data.congregationBoundary

(***************************************************************************)
(* Claims about the classification (checked under SpecExtract).            *)
(***************************************************************************)
\* the position at which the contour with polygon poly was discovered
\* (the polygons of an image's contours are distinct)
Discovery(poly) == CHOOSE i \in DOMAIN image : image[i].polygon = poly

IdsInListOrder(rs) == \A i \in DOMAIN rs : rs[i].regionId = i

\* the regions of the dataset are those of the extraction, in its order
SameRegionsAsExtracted ==
    /\ Len(dataset.regions) = Len(extracted.regions)
    /\ \A i \in DOMAIN dataset.regions :
           dataset.regions[i].area = extracted.regions[i].area

TiesInDiscoveryOrder ==
    \A i, j \in DOMAIN extracted.regions :
        (i < j /\ extracted.regions[i].area = extracted.regions[j].area)
            => Discovery(extracted.regions[i].polygon)
                   < Discovery(extracted.regions[j].polygon)

\* C11 as claimed: after extraction and any number of passes the regionId
\* values are 1..N in list order, the areas are strictly descending, and
\* regions of equal area are in discovery order.
C11_StrictlyDescending ==
    extracted.hasRegions =>
        /\ IdsInListOrder(dataset.regions)
        /\ SameRegionsAsExtracted
        /\ \A i, j \in DOMAIN dataset.regions :
               i < j => dataset.regions[i].area > dataset.regions[j].area
        /\ TiesInDiscoveryOrder

\* C11 as amended: the regionId values are 1..N in list order, the areas
\* never increase along the list, and regions of equal area are in discovery
\* order.
C11_DescendingStable ==
    extracted.hasRegions =>
        /\ IdsInListOrder(dataset.regions)
        /\ SameRegionsAsExtracted
        /\ \A i, j \in DOMAIN dataset.regions :
               i < j => dataset.regions[i].area >= dataset.regions[j].area
        /\ TiesInDiscoveryOrder

C11_Witness ==
    /\ passes = 1
    /\ Len(dataset.regions) = 2
    /\ dataset.regions[1].area = dataset.regions[2].area
    /\ dataset.regions[1].vertices < extracted.regions[1].vertices
    /\ Discovery(extracted.regions[1].polygon) = 1

(***************************************************************************)
(* Further claims about the dataset file (checked under Spec).             *)
(***************************************************************************)
\* C12: the area a of every Region of the persisted dataset satisfies
\* 0.0005 * (imageWidth * imageHeight) <= a <= 0.15 * (imageWidth *
\* imageHeight), here with both sides scaled to integers.
C12_AreaWithinBounds ==
    live.kind = "object" =>
        \A r \in Regions(live) :
            /\ 2000 * r.area >= ImageWidth * ImageHeight
            /\ 20 * r.area <= 3 * ImageWidth * ImageHeight

C12_Witness ==
    /\ live.kind = "object"
    /\ runKind = "simplify"
    /\ failure = "none"
    /\ pc = "idle"
    /\ \E r \in Regions(live) : 2000 * r.area = ImageWidth * ImageHeight
    /\ \E r \in Regions(live) : 20 * r.area = 3 * ImageWidth * ImageHeight

(***************************************************************************)
(* SpecRdpCalls: one evaluation of rdp on every point list, recording the  *)
(* recursive calls it makes.                                               *)
(***************************************************************************)
InitRdpCalls ==
    /\ points \in PointLists
    /\ epsilon \in Epsilons
    /\ region = [polygon |-> <<>>, vertices |-> 0]
    /\ passes = 0
    /\ calls = {}
    /\ IdleFiles
    /\ IdleExtract

RunRdp ==
    /\ passes = 0
    /\ calls' = rdpCalls(points, epsilon, 1, Len(points) + 1)
    /\ passes' = 1
    /\ UNCHANGED <<points, epsilon, region, fileVars, extractVars>>

NextRdpCalls == RunRdp

SpecRdpCalls == InitRdpCalls /\ [][NextRdpCalls]_vars

\* C14: every recursive call of rdp receives a list of at least 2 points that
\* is strictly shorter than its caller's list, and the nesting depth of calls
\* never exceeds the number of vertices of the list rdp was given.
C14_CallsShrink ==
    \A c \in calls :
        /\ c.callee >= 2
        /\ c.callee < c.caller
        /\ c.depth <= Len(points)

\* a list of 4 points whose evaluation nests as deep as it can: the call at
\* depth 3 is made by a list of 3 points that was itself passed by the
\* outermost call
C14_Witness ==
    /\ passes = 1
    /\ Len(points) = 4
    /\ \E c \in calls : c.depth = 3 /\ c.caller = 3 /\ c.callee = 2
    /\ \E c \in calls : c.depth = 2 /\ c.caller = 4 /\ c.callee = 3

(***************************************************************************)
(* Further claims about the classification (checked under SpecExtract).    *)
(***************************************************************************)
Over30 == {i \in DOMAIN image : 10 * image[i].area > 3 * ImageWidth * ImageHeight}
Over10 == {i \in DOMAIN image : 10 * image[i].area > ImageWidth * ImageHeight}
FourOrMore == {i \in DOMAIN image : Len(image[i].polygon) >= 4}

LargestOf(S) == {i \in S : \A j \in S : image[j].area <= image[i].area}
LongestOf(S) == {i \in S : \A j \in S : image[j].perimeter <= image[i].perimeter}

\* the boundary is the polygon of a largest contour of candidates if there
\* is one, else of a contour of greatest perimeter among Over10 if there is
\* one, else null
BoundaryChosenFrom(candidates) ==
    IF candidates # {}
    THEN \E i \in LargestOf(candidates) :
             extracted.congregationBoundary = image[i].polygon
    ELSE IF Over10 # {}
    THEN \E i \in LongestOf(Over10) :
             extracted.congregationBoundary = image[i].polygon
    ELSE extracted.congregationBoundary = None

\* C13 as claimed: congregationBoundary is the polygon of the largest contour
\* among all contours above 30% of the image; if there is none, of the
\* contour of greatest perimeter among those above 10%; else null.
C13_BoundarySelection == extracted.hasRegions => BoundaryChosenFrom(Over30)

\* C13 as amended: the candidates of the 30% rule are the contours above 30%
\* whose approximated polygon has at least 4 points.
C13_BoundarySelectionFourPoints ==
    extracted.hasRegions => BoundaryChosenFrom(Over30 \cap FourOrMore)

\* a contour above 30% is passed over for its 3-point polygon, and a smaller
\* one above 30% is chosen
C13_Witness ==
    /\ extracted.hasRegions
    /\ Over30 \ FourOrMore # {}
    /\ Over30 \cap FourOrMore # {}
    /\ \E i \in Over30 \cap FourOrMore :
           /\ extracted.congregationBoundary = image[i].polygon
           /\ \E j \in Over30 : image[j].area > image[i].area

\* the fallback scan chooses among contours none of which is above 30%
C13_WitnessFallback ==
    /\ extracted.hasRegions
    /\ Over30 = {}
    /\ Cardinality(Over10) = 2
    /\ \E i \in Over10 : \E j \in Over10 :
           /\ image[i].perimeter > image[j].perimeter
           /\ extracted.congregationBoundary = image[i].polygon

(***************************************************************************)
(* Claims about the lifetime of backups (checked under Spec).              *)
(***************************************************************************)
\* C15: a backup file once created is never overwritten or altered by a
\* later pass, two passes started within the same clock second included.
C15_BackupNeverOverwritten ==
    [][\A t \in DOMAIN backups :
           backups[t] # Absent => backups'[t] = backups[t]]_vars

====
